---- MODULE Spec2Model ----
(***************************************************************************)
(* Model of the Labelbox video uploader (upload_with_csv_check.py) and of  *)
(* the ledger it shares with generate_video_inventory.py.                  *)
(*                                                                         *)
(* A string is a sequence of tokens.  A token is one character, or a run   *)
(* of plain characters that the csv module treats like one plain character *)
(* (a column name, a file extension, an identifier).  The four characters  *)
(* the csv dialect and the text-mode file layer act on are tokens of their *)
(* own: COMMA, QUOTE, CR and LF.                                           *)
(***************************************************************************)
EXTENDS Naturals, Sequences, FiniteSets

VARIABLES
    ledger,        \* the ledger file on disk: [exists, bytes]
    datasets,      \* the remote datasets, in get_datasets() order: [name, uid]
    tree,          \* the video folder: [exists, files], files in rglob order
    converted,     \* names of the files present in converted_videos/
    convFolder,    \* whether converted_videos/ exists
    pc,            \* position of the control flow
    run,           \* "first" or "second" invocation of the script
    inventory,     \* upload_videos_with_csv_check: inventory
    dataset,       \* upload_videos_with_csv_check: dataset
    idx,           \* position of the for loop in the scan (1-based)
    new_videos,    \* upload_videos_with_csv_check: new_videos
    video_count,   \* upload_videos_with_csv_check: video_count
    skipped_count, \* upload_videos_with_csv_check: skipped_count
    nextUid,       \* number of data row uids the remote side has handed out
    log,           \* history: the external calls of this run, in order
    artifacts,     \* history: <<name, i>>: name in converted_videos/ was written for file i in this run
    start,         \* history: ledger, datasets and converted_videos/ when this run started
    written,       \* history: whether this run wrote the ledger file
    prev           \* history: log and final ledger of the first run

vars == <<ledger, datasets, tree, converted, convFolder, pc, run, inventory,
          dataset, idx, new_videos, video_count, skipped_count, nextUid,
          log, artifacts, start, written, prev>>

-----------------------------------------------------------------------------
(* Characters and strings *)

COMMA == ","
QUOTE == "<quote>"
CR == "<cr>"
LF == "<lf>"

\* the column names, as strings
DATASET_NAME == <<"dataset_name">>
VIDEO_NAME == <<"video_name">>
DATA_ROW_ID == <<"data_row_id">>
DATASET_ID == <<"dataset_id">>

\* fieldnames of update_video_inventory and generate_video_inventory
fieldnames == <<DATASET_NAME, VIDEO_NAME, DATA_ROW_ID, DATASET_ID>>

\* a file that does not exist, and one holding bytes
NoFile == [exists |-> FALSE, bytes |-> <<>>]
File(bytes) == [exists |-> TRUE, bytes |-> bytes]

RECURSIVE Join(_, _)
\* sep.join(strs), on sequences of tokens
Join(strs, sep) ==
    IF strs = <<>> THEN <<>>
    ELSE IF Len(strs) = 1 THEN strs[1]
    ELSE strs[1] \o sep \o Join(Tail(strs), sep)

RECURSIVE Flatten(_)
Flatten(strs) == IF strs = <<>> THEN <<>> ELSE Head(strs) \o Flatten(Tail(strs))

-----------------------------------------------------------------------------
(* csv.writer, excel dialect: delimiter ',', quotechar '"', doublequote,    *)
(* QUOTE_MINIMAL, lineterminator '\r\n'; the file is opened newline='' so   *)
(* what the writer emits is what reaches the disk.                          *)

NeedsQuote(f) == \E k \in 1..Len(f) : f[k] \in {COMMA, QUOTE, CR, LF}

RECURSIVE DoubleQuotes(_)
DoubleQuotes(f) ==
    IF f = <<>> THEN <<>>
    ELSE (IF Head(f) = QUOTE THEN <<QUOTE, QUOTE>> ELSE <<Head(f)>>)
         \o DoubleQuotes(Tail(f))

WriteField(f) ==
    IF NeedsQuote(f) THEN <<QUOTE>> \o DoubleQuotes(f) \o <<QUOTE>> ELSE f

\* writer.writerow(fields)
WriteRow(fields) ==
    Join([k \in 1..Len(fields) |-> WriteField(fields[k])], <<COMMA>>) \o <<CR, LF>>

\* DictWriter._dict_to_list: the values of a row dict in fieldnames order
DictToList(d) == [k \in 1..Len(fieldnames) |-> d[fieldnames[k]]]

\* writer.writeheader() then writer.writerows(dicts)
WriteCsv(dicts) ==
    WriteRow(fieldnames)
    \o Flatten([k \in 1..Len(dicts) |-> WriteRow(DictToList(dicts[k]))])

-----------------------------------------------------------------------------
(* Reading.  open(csv_path, 'r') is a text-mode file with universal         *)
(* newlines: every '\r\n' and every lone '\r' reaches the reader as '\n',   *)
(* inside quoted fields too.                                                *)

RECURSIVE TextRead(_)
TextRead(bytes) ==
    IF bytes = <<>> THEN <<>>
    ELSE IF Head(bytes) = CR
         THEN IF Len(bytes) >= 2 /\ bytes[2] = LF
              THEN <<LF>> \o TextRead(Tail(Tail(bytes)))
              ELSE <<LF>> \o TextRead(Tail(bytes))
         ELSE <<Head(bytes)>> \o TextRead(Tail(bytes))

(* csv.reader's state machine (Reader_iternext / parse_process_char), non   *)
(* strict.  st is the parser state, f the field and r the record under      *)
(* construction, rows the records finished so far.  The reader is fed line  *)
(* by line: a line end ('\n', '\r' or '\r\n') outside quotes ends the       *)
(* record, an empty line is the empty record, and inside quotes the line    *)
(* end's characters belong to the field.                                    *)
AfterEol(text) ==
    IF Head(text) = CR /\ Len(text) >= 2 /\ text[2] = LF
    THEN Tail(Tail(text)) ELSE Tail(text)

RECURSIVE Parse(_, _, _, _, _)
Parse(text, st, f, r, rows) ==
    IF text = <<>>
    THEN \* end of input: an unfinished record is returned as it stands
         IF st = "START_RECORD" THEN rows ELSE Append(rows, Append(r, f))
    ELSE LET c == Head(text)
             rest == Tail(text)
             eol == c \in {CR, LF}
         IN CASE st = "START_RECORD" ->
                   IF eol THEN Parse(AfterEol(text), "START_RECORD", <<>>, <<>>, Append(rows, <<>>))
                   ELSE Parse(text, "START_FIELD", <<>>, <<>>, rows)
              [] st = "START_FIELD" ->
                   IF eol THEN Parse(AfterEol(text), "START_RECORD", <<>>, <<>>,
                                     Append(rows, Append(r, <<>>)))
                   ELSE IF c = QUOTE THEN Parse(rest, "IN_QUOTED_FIELD", <<>>, r, rows)
                   ELSE IF c = COMMA THEN Parse(rest, "START_FIELD", <<>>, Append(r, <<>>), rows)
                   ELSE Parse(rest, "IN_FIELD", <<c>>, r, rows)
              [] st = "IN_FIELD" ->
                   IF eol THEN Parse(AfterEol(text), "START_RECORD", <<>>, <<>>,
                                     Append(rows, Append(r, f)))
                   ELSE IF c = COMMA THEN Parse(rest, "START_FIELD", <<>>, Append(r, f), rows)
                   ELSE Parse(rest, "IN_FIELD", Append(f, c), r, rows)
              [] st = "IN_QUOTED_FIELD" ->
                   IF c = QUOTE THEN Parse(rest, "QUOTE_IN_QUOTED_FIELD", f, r, rows)
                   ELSE Parse(rest, "IN_QUOTED_FIELD", Append(f, c), r, rows)
              [] OTHER -> \* QUOTE_IN_QUOTED_FIELD
                   IF c = QUOTE THEN Parse(rest, "IN_QUOTED_FIELD", Append(f, c), r, rows)
                   ELSE IF c = COMMA THEN Parse(rest, "START_FIELD", <<>>, Append(r, f), rows)
                   ELSE IF eol THEN Parse(AfterEol(text), "START_RECORD", <<>>, <<>>,
                                          Append(rows, Append(r, f)))
                   ELSE Parse(rest, "IN_FIELD", Append(f, c), r, rows)

\* csv.reader(text): the records of the text
CsvReader(text) == Parse(text, "START_RECORD", <<>>, <<>>, <<>>)

RECURSIVE NonEmptyRows(_)
NonEmptyRows(rows) ==
    IF rows = <<>> THEN <<>>
    ELSE (IF Head(rows) = <<>> THEN <<>> ELSE <<Head(rows)>>) \o NonEmptyRows(Tail(rows))

(* csv.DictReader(text): the first record names the columns, every later    *)
(* non-empty record becomes a dict from column name to field.  The files of *)
(* this program have as many fields in every record as in the header.       *)
DictReader(text) ==
    LET rows == CsvReader(text)
    IN IF rows = <<>> THEN <<>>
       ELSE LET header == Head(rows)
                data == NonEmptyRows(Tail(rows))
                names == {header[k] : k \in 1..Len(header)}
                \* dict(zip(header, row)): the last column of a name is the one kept
                col(n) == CHOOSE k \in 1..Len(header) :
                             /\ header[k] = n
                             /\ \A j \in 1..Len(header) : header[j] = n => j <= k
            IN [j \in 1..Len(data) |-> [n \in names |-> data[j][col(n)]]]

-----------------------------------------------------------------------------
(* The ledger functions of upload_with_csv_check.py *)

\* inventory[k] = v on a dict
Put(d, k, v) == [x \in (DOMAIN d) \cup {k} |-> IF x = k THEN v ELSE d[x]]

RECURSIVE LoadRows_FirstWins(_, _)
\* variant: a name already in the dict is not overwritten
LoadRows_FirstWins(rows, inv) ==
    IF rows = <<>> THEN inv
    ELSE LET row == Head(rows)
         IN LoadRows_FirstWins(Tail(rows),
                IF row[VIDEO_NAME] \in DOMAIN inv THEN inv
                ELSE Put(inv, row[VIDEO_NAME],
                         [dataset_name |-> row[DATASET_NAME],
                          data_row_id |-> row[DATA_ROW_ID],
                          dataset_id |-> row[DATASET_ID]]))

RECURSIVE LoadRows(_, _)
\* the for loop of load_video_inventory
LoadRows(rows, inv) ==
    IF rows = <<>> THEN inv
    ELSE LET row == Head(rows)
         IN LoadRows(Tail(rows),
                     Put(inv, row[VIDEO_NAME],
                         [dataset_name |-> row[DATASET_NAME],
                          data_row_id |-> row[DATA_ROW_ID],
                          dataset_id |-> row[DATASET_ID]]))

load_video_inventory(file) ==
    IF file.exists THEN LoadRows(DictReader(TextRead(file.bytes)), <<>>) ELSE <<>>

\* variant: the existing rows are not read back before the file is written
update_video_inventory_Overwrite(file, new) == File(WriteCsv(new))

\* the file update_video_inventory leaves at csv_path
update_video_inventory(file, new) ==
    LET existing_data == IF file.exists THEN DictReader(TextRead(file.bytes)) ELSE <<>>
    IN File(WriteCsv(existing_data \o new))

\* a row dict as both scripts build it
Row(dataset_name, video_name, data_row_id, dataset_id) ==
    [n \in {DATASET_NAME, VIDEO_NAME, DATA_ROW_ID, DATASET_ID} |->
        IF n = DATASET_NAME THEN dataset_name
        ELSE IF n = VIDEO_NAME THEN video_name
        ELSE IF n = DATA_ROW_ID THEN data_row_id
        ELSE dataset_id]

\* the file generate_video_inventory leaves, given the rows it collected
generate_video_inventory(inventory_data) ==
    IF inventory_data # <<>> THEN File(WriteCsv(inventory_data)) ELSE NoFile

-----------------------------------------------------------------------------
(* Inputs *)

\* the longest scan
MaxFiles == 2

\* file names: the last token is the extension (Path.suffix)
FileNames == { <<"a", ".mp4">>, <<"c", CR, ".MOV">>, <<"n", ".txt">> }

suffix(name) == name[Len(name)]

\* str.lower() on an extension
lower(ext) == IF ext = ".MOV" THEN ".mov" ELSE ext

video_extensions == {".mp4", ".mov", ".avi", ".mkv", ".wmv"}

\* Path(video_folder_path).name
folder_name == <<"d">>

\* the uids the remote side hands out to new data rows, in order
UidTokens == <<"u1", "u2", "u3", "u4", "u5", "u6", "u7", "u8">>

SeqsUpTo(S, n) == UNION {[1..k -> S] : k \in 0..n}

\* rows generate_video_inventory may have collected from the remote side
RemoteRow(v) == Row(<<"old">>, v, <<"u0">>, <<"ds0">>)

RemoteRowLists ==
    { <<>>,
      <<RemoteRow(<<"a", ".mp4">>)>>,
      <<RemoteRow(<<"c", CR, ".MOV">>)>>,
      <<RemoteRow(<<"c", CR, ".MOV">>), RemoteRow(<<"a", ".mp4">>)>> }

\* the ledger a run starts from was written by generate_video_inventory
InitLedgers == {generate_video_inventory(rows) : rows \in RemoteRowLists}

Unassigned == [name |-> <<>>, uid |-> <<>>]

Snapshot(l, d, cf, c) == [ledger |-> l, datasets |-> d, convFolder |-> cf, converted |-> c]

Init ==
    /\ ledger \in InitLedgers
    /\ datasets \in {<<>>, <<[name |-> folder_name, uid |-> <<"ds0">>]>>}
    /\ tree \in {[exists |-> FALSE, files |-> <<>>]}
                \cup {[exists |-> TRUE, files |-> fs] : fs \in SeqsUpTo(FileNames, MaxFiles)}
    /\ \/ convFolder = FALSE /\ converted = {}
       \/ convFolder = TRUE /\ converted = {<<"a", ".mp4">>}
    /\ pc = "start"
    /\ run = "first"
    /\ inventory = <<>>
    /\ dataset = Unassigned
    /\ idx = 1
    /\ new_videos = <<>>
    /\ video_count = 0
    /\ skipped_count = 0
    /\ nextUid = 0
    /\ log = <<>>
    /\ artifacts = {}
    /\ start = Snapshot(ledger, datasets, convFolder, converted)
    /\ written = FALSE
    /\ prev = [log |-> <<>>, ledger |-> NoFile]

Event(op, file, ok, uid) == [op |-> op, file |-> file, ok |-> ok, uid |-> uid]

-----------------------------------------------------------------------------
(* upload_videos_with_csv_check, step by step *)

\* lines 56-60
LoadInventory ==
    /\ pc = "start"
    /\ inventory' = load_video_inventory(ledger)
    /\ pc' = "dataset"
    /\ UNCHANGED <<ledger, datasets, tree, converted, convFolder, run, dataset, idx,
                   new_videos, video_count, skipped_count, nextUid, log, artifacts,
                   start, written, prev>>

\* get_or_create_dataset: the first dataset of that name, or a new one
Found(name) == {k \in 1..Len(datasets) : datasets[k].name = name}

GetOrCreateDataset ==
    /\ pc = "dataset"
    /\ IF Found(folder_name) # {}
       THEN /\ dataset' = datasets[CHOOSE k \in Found(folder_name) :
                                       \A j \in Found(folder_name) : k <= j]
            /\ datasets' = datasets
       ELSE /\ dataset' = [name |-> folder_name, uid |-> <<"ds1">>]
            /\ datasets' = Append(datasets, dataset')
    /\ pc' = "check_folder"
    /\ UNCHANGED <<ledger, tree, converted, convFolder, run, inventory, idx,
                   new_videos, video_count, skipped_count, nextUid, log, artifacts,
                   start, written, prev>>

\* variant: converted_videos/ is made before the folder is looked at
CheckFolder_MkdirFirst ==
    /\ pc = "check_folder"
    /\ pc' = IF ~tree.exists THEN "returned" ELSE "scan"
    /\ convFolder' = TRUE
    /\ idx' = 1
    /\ new_videos' = <<>>
    /\ video_count' = 0
    /\ skipped_count' = 0
    /\ UNCHANGED <<ledger, datasets, tree, converted, run, inventory, dataset,
                   nextUid, log, artifacts, start, written, prev>>

\* lines 71-83
CheckFolder ==
    /\ pc = "check_folder"
    /\ IF ~tree.exists
       THEN /\ pc' = "returned"
            /\ UNCHANGED convFolder
       ELSE /\ pc' = "scan"
            /\ convFolder' = TRUE
    /\ idx' = 1
    /\ new_videos' = <<>>
    /\ video_count' = 0
    /\ skipped_count' = 0
    /\ UNCHANGED <<ledger, datasets, tree, converted, run, inventory, dataset,
                   nextUid, log, artifacts, start, written, prev>>

video_name == tree.files[idx]

\* lines 85-86: a file that is no video is passed over
ScanOther ==
    /\ pc = "scan"
    /\ idx <= Len(tree.files)
    /\ lower(suffix(video_name)) \notin video_extensions
    /\ idx' = idx + 1
    /\ UNCHANGED <<ledger, datasets, tree, converted, convFolder, pc, run, inventory,
                   dataset, new_videos, video_count, skipped_count, nextUid, log,
                   artifacts, start, written, prev>>

\* lines 87-95: a video whose name is in the inventory is skipped
ScanSkip ==
    /\ pc = "scan"
    /\ idx <= Len(tree.files)
    /\ lower(suffix(video_name)) \in video_extensions
    /\ video_name \in DOMAIN inventory
    /\ video_count' = video_count + 1
    /\ skipped_count' = skipped_count + 1
    /\ log' = Append(log, Event("skip", idx, TRUE, <<>>))
    /\ idx' = idx + 1
    /\ UNCHANGED <<ledger, datasets, tree, converted, convFolder, pc, run, inventory,
                   dataset, new_videos, nextUid, artifacts, start, written, prev>>

\* variant: the inventory is not consulted
ScanNew_Unchecked ==
    /\ pc = "scan"
    /\ idx <= Len(tree.files)
    /\ lower(suffix(video_name)) \in video_extensions
    /\ video_count' = video_count + 1
    /\ pc' = "convert"
    /\ UNCHANGED <<ledger, datasets, tree, converted, convFolder, run, inventory,
                   dataset, idx, new_videos, skipped_count, nextUid, log, artifacts,
                   start, written, prev>>

\* lines 87-91: any other video goes on to the transcoder
ScanNew ==
    /\ pc = "scan"
    /\ idx <= Len(tree.files)
    /\ lower(suffix(video_name)) \in video_extensions
    /\ video_name \notin DOMAIN inventory
    /\ video_count' = video_count + 1
    /\ pc' = "convert"
    /\ UNCHANGED <<ledger, datasets, tree, converted, convFolder, run, inventory,
                   dataset, idx, new_videos, skipped_count, nextUid, log, artifacts,
                   start, written, prev>>

\* variant: a failed conversion leaves the loop (break instead of continue)
Convert_Break ==
    /\ pc = "convert"
    /\ \E returncode \in {0, 1}, wrote \in BOOLEAN :
          /\ IF wrote
             THEN /\ converted' = converted \cup {video_name}
                  /\ artifacts' = {a \in artifacts : a[1] # video_name}
                                  \cup {<<video_name, idx>>}
             ELSE IF returncode = 0
             THEN /\ converted' = converted \ {video_name}
                  /\ artifacts' = {a \in artifacts : a[1] # video_name}
             ELSE UNCHANGED <<converted, artifacts>>
          /\ log' = Append(log, Event("ffmpeg", idx, returncode = 0, <<>>))
          /\ IF returncode # 0 \/ video_name \notin converted'
             THEN /\ pc' = "scan"
                  /\ idx' = Len(tree.files) + 1
             ELSE /\ pc' = "upload"
                  /\ idx' = idx
    /\ UNCHANGED <<ledger, datasets, tree, convFolder, run, inventory, dataset,
                   new_videos, video_count, skipped_count, nextUid, start,
                   written, prev>>

(* lines 97-112: ffmpeg -y writes converted_videos/<video_name>.  The code  *)
(* tests the exit status and the existence of the output separately, so     *)
(* all four outcomes are taken: exit 0 with the output written, exit 0 with *)
(* no output there, a failure that left a partial output, and a failure     *)
(* that did not touch the path (what was there before stays).               *)
Convert ==
    /\ pc = "convert"
    /\ \E returncode \in {0, 1}, wrote \in BOOLEAN :
          /\ IF wrote
             THEN /\ converted' = converted \cup {video_name}
                  /\ artifacts' = {a \in artifacts : a[1] # video_name}
                                  \cup {<<video_name, idx>>}
             ELSE IF returncode = 0
             THEN /\ converted' = converted \ {video_name}
                  /\ artifacts' = {a \in artifacts : a[1] # video_name}
             ELSE UNCHANGED <<converted, artifacts>>
          /\ log' = Append(log, Event("ffmpeg", idx, returncode = 0, <<>>))
          /\ IF returncode # 0 \/ video_name \notin converted'
             THEN /\ pc' = "scan"
                  /\ idx' = idx + 1
             ELSE /\ pc' = "upload"
                  /\ idx' = idx
    /\ UNCHANGED <<ledger, datasets, tree, convFolder, run, inventory, dataset,
                   new_videos, video_count, skipped_count, nextUid, start,
                   written, prev>>

\* lines 114-131: create_data_row returns a data row, or raises
Upload ==
    /\ pc = "upload"
    /\ \/ /\ nextUid < Len(UidTokens)
          /\ LET uid == <<UidTokens[nextUid + 1]>>
             IN /\ new_videos' = Append(new_videos,
                                        Row(folder_name, video_name, uid, dataset.uid))
                /\ log' = Append(log, Event("create_data_row", idx, TRUE, uid))
          /\ nextUid' = nextUid + 1
       \/ /\ log' = Append(log, Event("create_data_row", idx, FALSE, <<>>))
          /\ UNCHANGED <<new_videos, nextUid>>
    /\ pc' = "cleanup"
    /\ UNCHANGED <<ledger, datasets, tree, converted, convFolder, run, inventory,
                   dataset, idx, video_count, skipped_count, artifacts, start,
                   written, prev>>

\* lines 132-138: unlink the converted file; an error is printed and dropped
Cleanup ==
    /\ pc = "cleanup"
    /\ IF video_name \in converted
       THEN \/ /\ converted' = converted \ {video_name}
               /\ artifacts' = {a \in artifacts : a[1] # video_name}
               /\ log' = Append(log, Event("unlink", idx, TRUE, <<>>))
            \/ /\ log' = Append(log, Event("unlink", idx, FALSE, <<>>))
               /\ UNCHANGED <<converted, artifacts>>
       ELSE UNCHANGED <<converted, artifacts, log>>
    /\ pc' = "scan"
    /\ idx' = idx + 1
    /\ UNCHANGED <<ledger, datasets, tree, convFolder, run, inventory, dataset,
                   new_videos, video_count, skipped_count, nextUid, start,
                   written, prev>>

\* lines 140-149, the scan being over
Finish ==
    /\ pc = "scan"
    /\ idx > Len(tree.files)
    /\ IF new_videos # <<>>
       THEN /\ ledger' = update_video_inventory(ledger, new_videos)
            /\ written' = TRUE
       ELSE UNCHANGED <<ledger, written>>
    /\ pc' = "done"
    /\ UNCHANGED <<datasets, tree, converted, convFolder, run, inventory, dataset,
                   idx, new_videos, video_count, skipped_count, nextUid, log,
                   artifacts, start, prev>>

\* the script is started again, on the same folder and ledger path
Rerun ==
    /\ pc \in {"done", "returned"}
    /\ run = "first"
    /\ run' = "second"
    /\ prev' = [log |-> log, ledger |-> ledger]
    /\ pc' = "start"
    /\ inventory' = <<>>
    /\ dataset' = Unassigned
    /\ idx' = 1
    /\ new_videos' = <<>>
    /\ video_count' = 0
    /\ skipped_count' = 0
    /\ log' = <<>>
    /\ artifacts' = {}
    /\ start' = Snapshot(ledger, datasets, convFolder, converted)
    /\ written' = FALSE
    /\ UNCHANGED <<ledger, datasets, tree, converted, convFolder, nextUid>>

Next ==
    \/ LoadInventory
    \/ GetOrCreateDataset
    \/ CheckFolder
    \/ ScanOther
    \/ ScanSkip
    \/ ScanNew
    \/ Convert
    \/ Upload
    \/ Cleanup
    \/ Finish

\* one run of the script
Spec == Init /\ [][Next]_vars

NextRerun == Next \/ Rerun

\* two runs of the script, one after the other
SpecRerun == Init /\ [][NextRerun]_vars

-----------------------------------------------------------------------------
(* The two ledger functions on their own: rows are written to a ledger path *)
(* that does not exist yet, and the ledger is loaded.                       *)

MaxCsvRows == 2

\* video names with every character the csv layer treats specially
CsvNames == { <<"a">>, <<"b", CR>>, <<"b", LF>>, <<"b", CR, LF>>, <<COMMA, "a">>,
              <<"a", QUOTE>>, <<>> }

CsvRows == {Row(<<"d">>, v, u, <<"ds0">>) : v \in CsvNames, u \in {<<"u1">>, <<"u2", COMMA>>}}

InitCsv ==
    /\ new_videos \in SeqsUpTo(CsvRows, MaxCsvRows)
    /\ ledger = NoFile
    /\ inventory = <<>>
    /\ pc = "csv_input"
    /\ datasets = <<>>
    /\ tree = [exists |-> FALSE, files |-> <<>>]
    /\ converted = {}
    /\ convFolder = FALSE
    /\ run = "first"
    /\ dataset = Unassigned
    /\ idx = 1
    /\ video_count = 0
    /\ skipped_count = 0
    /\ nextUid = 0
    /\ log = <<>>
    /\ artifacts = {}
    /\ start = Snapshot(ledger, datasets, convFolder, converted)
    /\ written = FALSE
    /\ prev = [log |-> <<>>, ledger |-> NoFile]

\* update_video_inventory(csv_path, new_videos)
CsvUpdate ==
    /\ pc = "csv_input"
    /\ ledger' = update_video_inventory(ledger, new_videos)
    /\ written' = TRUE
    /\ pc' = "csv_file"
    /\ UNCHANGED <<datasets, tree, converted, convFolder, run, inventory, dataset, idx,
                   new_videos, video_count, skipped_count, nextUid, log, artifacts,
                   start, prev>>

\* load_video_inventory(csv_path)
CsvLoad ==
    /\ pc \in {"csv_input", "csv_file"}
    /\ inventory' = load_video_inventory(ledger)
    /\ pc' = "csv_loaded"
    /\ UNCHANGED <<ledger, datasets, tree, converted, convFolder, run, dataset, idx,
                   new_videos, video_count, skipped_count, nextUid, log, artifacts,
                   start, written, prev>>

NextCsv == CsvUpdate \/ CsvLoad

SpecCsv == InitCsv /\ [][NextCsv]_vars

-----------------------------------------------------------------------------
(* Vocabulary of the properties *)

(* The data rows a ledger file holds: its bytes read the way the csv module *)
(* prescribes (a file opened with newline=''), with no newline translation. *)
FileRows(file) == IF file.exists THEN DictReader(file.bytes) ELSE <<>>

Name(i) == tree.files[i]
IsVideo(i) == lower(suffix(Name(i))) \in video_extensions

\* the files an event of kind op was logged for
FilesOf(l, op) == {l[k].file : k \in {j \in 1..Len(l) : l[j].op = op}}
Skipped(l) == FilesOf(l, "skip")
Transcoded(l) == FilesOf(l, "ffmpeg")
Created(l) == FilesOf(l, "create_data_row")

IsUpload(e) == e.op = "create_data_row" /\ e.ok
\* the create_data_row calls that returned a data row, in order
Uploads(l) == SelectSeq(l, IsUpload)
Uploaded(l) == {l[k].file : k \in {j \in 1..Len(l) : IsUpload(l[j])}}

\* the files handed to the transcoder that were not uploaded: a failed
\* transcode, a missing output or a failed create_data_row
Failed(l) == Transcoded(l) \ Uploaded(l)

NamesOf(rows) == {rows[k][VIDEO_NAME] : k \in 1..Len(rows)}
DistinctNames(rows) == \A j, k \in 1..Len(rows) : rows[j][VIDEO_NAME] = rows[k][VIDEO_NAME] => j = k
RowsNamed(rows, n) == {k \in 1..Len(rows) : rows[k][VIDEO_NAME] = n}

\* the dict entry load_video_inventory keeps for a row
Entry(row) == [dataset_name |-> row[DATASET_NAME],
               data_row_id |-> row[DATA_ROW_ID],
               dataset_id |-> row[DATASET_ID]]

-----------------------------------------------------------------------------
(* Properties of one run (Spec) *)

\* C1: a scanned file whose name is a key of the ledger as loaded at the start
\* of the run is never handed to the transcoder nor to create_data_row; if it
\* is a video it is counted as skipped, and nothing else is.
C1_InLedgerNeverProcessed ==
    LET loaded == load_video_inventory(start.ledger)
        known == {i \in 1..Len(tree.files) : Name(i) \in DOMAIN loaded}
    IN /\ \A i \in known :
            /\ i \notin Transcoded(log)
            /\ i \notin Created(log)
            /\ (i < idx /\ IsVideo(i)) => i \in Skipped(log)
       /\ pc \in {"scan", "convert", "upload", "cleanup", "done"} =>
            /\ Skipped(log) = {i \in known : i < idx /\ IsVideo(i)}
            /\ skipped_count = Cardinality(Skipped(log))

C1_Witness ==
    /\ pc = "done"
    /\ \E i, j \in 1..Len(tree.files) :
          /\ IsVideo(i)
          /\ Name(i) \in DOMAIN load_video_inventory(start.ledger)
          /\ i < j
          /\ j \in Uploaded(log)

\* C2: after a run with K >= 1 successful uploads the ledger file holds K more
\* rows than before, and the added rows carry, in upload order, the uploaded
\* file's name, the uid create_data_row returned, and the dataset's uid and name.
C2_LedgerGrowsByUploads ==
    (pc = "done" /\ Uploads(log) # <<>>) =>
        LET before == FileRows(start.ledger)
            after == FileRows(ledger)
            ups == Uploads(log)
        IN /\ Len(after) = Len(before) + Len(ups)
           /\ \A j \in 1..Len(ups) :
                 after[Len(before) + j]
                   = Row(dataset.name, Name(ups[j].file), ups[j].uid, dataset.uid)
           /\ \E k \in 1..Len(datasets) : datasets[k] = dataset

C2_Witness ==
    /\ pc = "done"
    /\ Len(Uploads(log)) >= 2
    /\ Len(FileRows(start.ledger)) >= 1
    /\ Len(FileRows(ledger)) = Len(FileRows(start.ledger)) + 2

\* C3: a failed transcode, a missing output or a failed create_data_row does
\* not stop the run: the scan goes on with the next file (it is at a file, or
\* just past the last one), no video is passed over, and the ledger gets no
\* row for a file that failed.
C3_FailureDoesNotStopRun ==
    /\ pc = "scan" => idx <= Len(tree.files) + 1
    /\ pc \in {"convert", "upload", "cleanup"} => idx <= Len(tree.files)
    /\ pc = "done" => idx = Len(tree.files) + 1
    /\ pc \in {"scan", "convert", "upload", "cleanup", "done"} =>
          \A i \in 1..Len(tree.files) :
             (i < idx /\ IsVideo(i)) => i \in Skipped(log) \cup Transcoded(log)
    /\ pc = "done" =>
          LET before == FileRows(start.ledger)
              after == FileRows(ledger)
              added == SubSeq(after, Len(before) + 1, Len(after))
          IN \A i \in Failed(log) :
                Cardinality(RowsNamed(added, Name(i)))
                  = Cardinality({u \in Uploaded(log) : Name(u) = Name(i)})

C3_Witness ==
    /\ pc = "done"
    /\ written
    /\ \E i, j \in 1..Len(tree.files) :
          i < j /\ i \in Failed(log) /\ j \in Uploaded(log) /\ Name(i) # Name(j)

\* C6: every row the ledger file held before the run is still in it after the
\* run, with the same four values and in the same order, ahead of the added
\* rows; and a run that uploaded nothing does not write the ledger file.
C6_LedgerAppendOnly ==
    pc = "done" =>
        LET before == FileRows(start.ledger)
            after == FileRows(ledger)
        IN /\ Len(before) <= Len(after)
           /\ SubSeq(after, 1, Len(before)) = before
           /\ Uploaded(log) = {} => (~written /\ ledger = start.ledger)

\* C7: a file's transcode, create_data_row and unlink happen in that order and
\* before anything happens to a later file; and when the scan turns to a file,
\* converted_videos/ holds no artifact of an earlier file of this run, unless
\* deleting it raised an error.
Rank(op) == IF op = "ffmpeg" THEN 1 ELSE IF op = "create_data_row" THEN 2 ELSE 3

C7_ProcessedThenCleaned ==
    /\ \A j, k \in 1..Len(log) :
          j < k => \/ log[j].file < log[k].file
                   \/ log[j].file = log[k].file /\ Rank(log[j].op) < Rank(log[k].op)
    /\ (pc = "scan" /\ idx <= Len(tree.files)) =>
          \A a \in artifacts :
             a[2] < idx => \E k \in 1..Len(log) : log[k] = Event("unlink", a[2], FALSE, <<>>)

\* C8: create_data_row is called at most once per video_name in a run, and a
\* ledger with at most one row per video_name before the run has at most one
\* row per video_name after it.
C8_VideoNameUnique ==
    /\ \A j, k \in 1..Len(log) :
          (log[j].op = "create_data_row" /\ log[k].op = "create_data_row"
             /\ Name(log[j].file) = Name(log[k].file)) => j = k
    /\ (pc = "done" /\ DistinctNames(FileRows(start.ledger))) =>
          DistinctNames(FileRows(ledger))

\* C10, as stated: when the video folder does not exist the run returns with no
\* transcoder call, no create_data_row call, no ledger write, no
\* converted_videos folder created and no remote dataset created.
C10_NoSideEffect ==
    pc = "returned" =>
        /\ log = <<>>
        /\ ~written /\ ledger = start.ledger
        /\ convFolder = start.convFolder /\ converted = start.converted
        /\ datasets = start.datasets

\* C10, amended: as above, except that get_or_create_dataset has run before the
\* folder is looked at: the remote side has one more dataset, named after the
\* folder, exactly when it had none of that name.
C10_OnlyDatasetCreated ==
    pc = "returned" =>
        /\ log = <<>>
        /\ ~written /\ ledger = start.ledger
        /\ convFolder = start.convFolder /\ converted = start.converted
        /\ IF \E k \in 1..Len(start.datasets) : start.datasets[k].name = folder_name
           THEN datasets = start.datasets
           ELSE /\ Len(datasets) = Len(start.datasets) + 1
                /\ SubSeq(datasets, 1, Len(start.datasets)) = start.datasets
                /\ datasets[Len(datasets)].name = folder_name

C10_Witness ==
    /\ pc = "returned"
    /\ ~start.convFolder
    /\ Len(datasets) = Len(start.datasets) + 1

-----------------------------------------------------------------------------
(* Properties of two runs (SpecRerun) *)

\* C9: after a first run in which no file failed, a second run on the same
\* folder and ledger calls neither the transcoder nor create_data_row, skips
\* every video and leaves the ledger file as it was; and a file that failed in
\* the first run is handed to the transcoder again in the second.
C9_RerunIdempotent ==
    (run = "second" /\ pc = "done") =>
        /\ Failed(prev.log) = {} =>
              /\ Transcoded(log) = {}
              /\ Created(log) = {}
              /\ \A i \in 1..Len(tree.files) : IsVideo(i) => i \in Skipped(log)
              /\ ~written /\ ledger = prev.ledger
        /\ \A i \in Failed(prev.log) : i \in Transcoded(log)

-----------------------------------------------------------------------------
(* Properties of the ledger functions (SpecCsv) *)

\* the mapping a list of rows with pairwise different names stands for
MappingOf(rows) ==
    [n \in NamesOf(rows) |-> Entry(rows[CHOOSE k \in 1..Len(rows) : rows[k][VIDEO_NAME] = n])]

\* C4: writing the records of a mapping with update_video_inventory to a path
\* that does not exist, then loading that path, returns the mapping.
C4_RoundTrip ==
    (pc = "csv_loaded" /\ written /\ DistinctNames(new_videos)) =>
        inventory = MappingOf(new_videos)

\* a string as a text-mode read returns it
AsRead(row) == [n \in DOMAIN row |-> TextRead(row[n])]

\* C5, as stated: loading a ledger file with N data rows returns a mapping of
\* size N keyed by video_name, the last row of a name being the one kept; a
\* missing file gives the empty mapping.
C5_SizeIsRowCount ==
    pc = "csv_loaded" =>
        LET rows == FileRows(ledger)
        IN /\ Cardinality(DOMAIN inventory) = Len(rows)
           /\ \A n \in DOMAIN inventory :
                 \E k \in RowsNamed(rows, n) :
                    /\ \A j \in RowsNamed(rows, n) : j <= k
                    /\ inventory[n] = Entry(rows[k])
           /\ ~ledger.exists => inventory = <<>>

\* C5, amended: the mapping has one entry per distinct video_name among the N
\* data rows (N entries exactly when no two rows share a name), names and
\* values being those a text-mode read returns; the entry kept for a name is
\* the one of the last row of that name; a missing file gives the empty mapping.
C5_OneEntryPerName ==
    pc = "csv_loaded" =>
        LET disk == FileRows(ledger)
            rows == [k \in 1..Len(disk) |-> AsRead(disk[k])]
        IN /\ DOMAIN inventory = NamesOf(rows)
           /\ Cardinality(DOMAIN inventory) <= Len(rows)
           /\ DistinctNames(rows) <=> Cardinality(DOMAIN inventory) = Len(rows)
           /\ \A n \in DOMAIN inventory :
                 \E k \in RowsNamed(rows, n) :
                    /\ \A j \in RowsNamed(rows, n) : j <= k
                    /\ inventory[n] = Entry(rows[k])
           /\ ~ledger.exists => inventory = <<>>

C5_Witness ==
    /\ pc = "csv_loaded"
    /\ Len(FileRows(ledger)) = 2
    /\ Cardinality(DOMAIN inventory) = 1
    /\ FileRows(ledger)[1][DATA_ROW_ID] # FileRows(ledger)[2][DATA_ROW_ID]
    /\ \A n \in DOMAIN inventory :
          inventory[n].data_row_id = TextRead(FileRows(ledger)[2][DATA_ROW_ID])

====
